---- MODULE Spec2Model ----
(***************************************************************************)
(* The streaming BOBJ mesh decoder of frontend/src/game/Model.ts           *)
(* (loadBOBJ, readChunks, readChunk, appendChunks) and the Model that      *)
(* consumes its result.                                                    *)
(*                                                                         *)
(* Conventions.                                                            *)
(*  - A chunk is a sequence of bytes (0..255).  Offsets into a chunk are   *)
(*    0-based as in the source; the byte at offset i of v is v[i + 1].     *)
(*  - Every chunk owns its ArrayBuffer (byteOffset 0), which is what       *)
(*    fetch's body reader delivers, so DataView(value.buffer) and          *)
(*    value.buffer.slice(readIndex) address the chunk's own bytes.         *)
(*  - A float is carried as its IEEE-754 bit pattern: getFloat32 yields    *)
(*    the 32-bit little-endian pattern, getFloat64 the pair <<low 32 bits, *)
(*    high 32 bits>>.                                                      *)
(*  - A JavaScript variable that was never assigned holds Undefined.       *)
(*  - A division whose result JavaScript keeps as a float (vertexCount,    *)
(*    triangleCount) is carried as the pair <<numerator, denominator>>.    *)
(***************************************************************************)
EXTENDS Integers, Sequences, FiniteSets, TLC

VARIABLES
    hdr,        \* the mesh the server encodes: width, mask, words, indices
    stream,     \* the bytes the response body holds
    pos,        \* how many bytes of stream the reader has delivered
    dec,        \* closure variables of one loadBOBJ call, trailingChunkData
    pc,         \* where the promise chain of loadBOBJ stands
    requested,  \* whether reader.read() has been called at all
    response,   \* the Response fetch resolved with, once it has
    chunks,     \* number of chunks delivered, counted up to MaxChunksCounted
    err,        \* the error the promise chain was rejected with
    promise,    \* state of the promise loadBOBJ returned
    result,     \* what resolve / reject was called with
    handed,     \* the vertex / index buffers handed to gl.bufferData
    modelData,  \* Model.modelData
    unhandled,  \* an error was thrown in a callback nobody observes
    outstanding, \* reader.read() promises not yet settled
    sessions,   \* two loadBOBJ calls at once: the closure of each
    gl,         \* the last gl.drawElements call Model.draw has made
    scene       \* Scene.objects, and the last call of add / remove

vars == <<hdr, stream, pos, dec, pc, requested, response, chunks, err,
          promise, result, handed, modelData, unhandled, outstanding,
          sessions, gl, scene>>

-----------------------------------------------------------------------------
(* Bounds of the model *)

MaxVertexWords == 1
MaxIndices == 2
MaxChunksCounted == 2

\* A variable that may still be unassigned holds Undefined or Some(its value).
Undefined == <<>>
Some(x) == <<x>>
Get(o) == o[1]

\* trailingChunkData = null
Null == <<>>
NoError == "none"

\* enum ModelReadState, in declaration order
ModelReadState ==
    <<"IndexSize", "VertexComponents", "ScaleFactor", "ModelOffset",
      "VertexCount", "IndexCount", "VertexData", "IndexData", "Done">>

-----------------------------------------------------------------------------
(* DataView reads, little-endian *)

InBounds(value, i, n) == i >= 0 /\ i + n <= Len(value)

getUint8(value, i) == value[i + 1]

getUint16(value, i) == value[i + 1] + 256 * value[i + 2]

getUint32(value, i) ==
    value[i + 1] + 256 * value[i + 2] + 65536 * value[i + 3]
        + 16777216 * value[i + 4]

getFloat32(value, i) == getUint32(value, i)

getFloat64(value, i) == <<getUint32(value, i), getUint32(value, i + 4)>>

\* new Uint8Array(n) / Uint16Array(n) / Uint32Array(n): n zeroes
TypedArrayOneShort(n) == [k \in 1..(n - 1) |-> 0]

TypedArray(n) == [k \in 1..n |-> 0]

\* bytes [from, to) of value, 0-based
Bytes(value, from, to) == SubSeq(value, from + 1, to)

-----------------------------------------------------------------------------
(* The reference encoding of section 6 of the specification: what the      *)
(* server sends for a mesh.                                                *)

LE(x, n) == [k \in 1..n |-> (x \div (256 ^ (k - 1))) % 256]

RECURSIVE Flatten(_, _)
Flatten(xs, n) ==
    IF xs = <<>> THEN <<>> ELSE LE(Head(xs), n) \o Flatten(Tail(xs), n)

\* 1.5 as a double, (0, 1.0, 2.0) as singles
ScaleBytes == <<0, 0, 0, 0, 0, 0, 248, 63>>
OffsetBytes(h) ==
    IF h.zeroOffset THEN [k \in 1..12 |-> 0]
    ELSE <<0, 0, 0, 0, 0, 0, 128, 63, 0, 0, 0, 64>>

\* width of one encoded index: the declared width, 4 for an unrecognised one
EncodedIndexWidth(w) == IF w \in {1, 2, 4} THEN w ELSE 4

Encode(h) ==
    <<h.indexSize, h.mask>> \o ScaleBytes \o OffsetBytes(h)
        \o LE(Len(h.V), 4) \o LE(Len(h.I), 4)
        \o Flatten(h.V, 4) \o Flatten(h.I, EncodedIndexWidth(h.indexSize))

-----------------------------------------------------------------------------
(* The closure variables of loadBOBJ as declared at lines 39-56, and        *)
(* trailingChunkData (line 148).  consumed is a history of the bytes the   *)
(* read position has moved over, visited a history of the values readState *)
(* was given.                                                              *)

InitDec ==
    [ readState         |-> "IndexSize",
      indexSize         |-> Undefined,
      hasColor          |-> Undefined,
      hasUV             |-> Undefined,
      hasNormal         |-> Undefined,
      scale             |-> <<0, 1072693248>>,   \* 1.0
      offset            |-> <<0, 0, 0>>,         \* vec3.create()
      vertexCount       |-> Undefined,
      vertexBufferSize  |-> Undefined,
      vertices          |-> Undefined,
      vertexWriteIndex  |-> 0,
      triangleCount     |-> Undefined,
      indexCount        |-> Undefined,
      indices           |-> Undefined,
      indicesElemSize   |-> Undefined,
      indicesWriteIndex |-> 0,
      trailingChunkData |-> Null,
      consumed          |-> <<>>,
      visited           |-> <<"IndexSize">> ]

\* The working state of one appendChunks call: the closure variables, the
\* local readIndex, and the exception that ended the call, if any.
BeginPass(d) ==
    [f \in DOMAIN d \cup {"readIndex", "thrown"} |->
        IF f = "readIndex" THEN 0
        ELSE IF f = "thrown" THEN NoError
        ELSE d[f]]

EndPass(p) == [f \in DOMAIN p \ {"readIndex", "thrown"} |-> p[f]]

\* readIndex += n
Advance(p, value, n) ==
    [p EXCEPT !.readIndex = @ + n,
              !.consumed = @ \o Bytes(value, p.readIndex, p.readIndex + n)]

\* readState = s
Enter(p, s) == [p EXCEPT !.readState = s, !.visited = Append(@, s)]

\* a DataView read outside the buffer throws RangeError
Throw(p) == [p EXCEPT !.thrown = "RangeError"]

Stride(hasUV, hasNormal) ==
    IF hasUV /\ hasNormal THEN 4 ELSE IF hasUV \/ hasNormal THEN 3 ELSE 2

\* lines 159-165: the carry is put in front of the new chunk
MergeTrailing(d, chunk) ==
    IF d.trailingChunkData # Null /\ Len(d.trailingChunkData) > 0
    THEN d.trailingChunkData \o chunk
    ELSE chunk

ClearTrailing(d) ==
    IF d.trailingChunkData # Null /\ Len(d.trailingChunkData) > 0
    THEN [d EXCEPT !.trailingChunkData = Null]
    ELSE d

\* lines 170-176
ReadIndexSize(p, value) ==
    IF p.thrown = NoError /\ p.readState = "IndexSize" /\ Len(value) >= 1
    THEN Advance([Enter(p, "VertexComponents") EXCEPT
                     !.indexSize = Some(getUint8(value, 0))], value, 1)
    ELSE p

\* lines 177-190; the guard looks at chunkSize, not at chunkSize - readIndex
VertexComponentsGuard(p, value) == Len(value) >= 1

ReadVertexComponents(p, value) ==
    IF p.thrown = NoError /\ p.readState = "VertexComponents"
          /\ VertexComponentsGuard(p, value)
    THEN IF InBounds(value, p.readIndex, 1)
         THEN LET componentMask == getUint8(value, p.readIndex)
              IN  Advance([Enter(p, "ScaleFactor") EXCEPT
                     !.hasColor = Some((componentMask \div 4) % 2 # 0),
                     !.hasNormal = Some((componentMask \div 2) % 2 # 0),
                     !.hasUV = Some(componentMask % 2 # 0)], value, 1)
         ELSE Throw(Enter(p, "ScaleFactor"))
    ELSE p

\* lines 191-197
ReadScaleFactor(p, value) ==
    IF p.thrown = NoError /\ p.readState = "ScaleFactor"
          /\ Len(value) - p.readIndex >= 8
    THEN Advance([Enter(p, "ModelOffset") EXCEPT
                     !.scale = getFloat64(value, p.readIndex)], value, 8)
    ELSE p

\* lines 198-206
ReadModelOffset(p, value) ==
    IF p.thrown = NoError /\ p.readState = "ModelOffset"
          /\ Len(value) - p.readIndex >= 12
    THEN Advance([Enter(p, "VertexCount") EXCEPT
            !.offset = <<getFloat32(value, p.readIndex),
                         getFloat32(value, p.readIndex + 4),
                         getFloat32(value, p.readIndex + 8)>>], value, 12)
    ELSE p

\* lines 207-218
ReadVertexCount(p, value) ==
    IF p.thrown = NoError /\ p.readState = "VertexCount"
          /\ Len(value) - p.readIndex >= 4
    THEN LET size == getUint32(value, p.readIndex)
         IN  Advance([Enter(p, "IndexCount") EXCEPT
                !.vertexBufferSize = Some(size),
                !.vertexCount =
                    Some(<<size, Stride(Get(p.hasUV), Get(p.hasNormal))>>),
                !.vertices = Some(TypedArray(size))], value, 4)
    ELSE p

\* lines 224-234: Uint8Array, Uint16Array, and Uint32Array for anything else
ElemSize(indexSize) ==
    IF indexSize = 1 THEN 1 ELSE IF indexSize = 2 THEN 2 ELSE 4

\* lines 219-237
ReadIndexCount(p, value) ==
    IF p.thrown = NoError /\ p.readState = "IndexCount"
          /\ Len(value) - p.readIndex >= 4
    THEN LET count == getUint32(value, p.readIndex)
         IN  Advance([Enter(p, "VertexData") EXCEPT
                !.indexCount = Some(count),
                !.triangleCount = Some(<<count, 3>>),
                !.indices = Some(TypedArray(count)),
                !.indicesElemSize = Some(ElemSize(Get(p.indexSize)))],
                value, 4)
    ELSE p

\* lines 238-251: the state leaves VertexData only inside the loop, that is
\* only while at least 4 unread bytes are at hand
VertexLoopGuard(p, value) == Len(value) - p.readIndex >= 4

VerticesFullOffByOne(p) == p.vertexWriteIndex > Get(p.vertexBufferSize)

\* line 239
VerticesFull(p) == p.vertexWriteIndex >= Get(p.vertexBufferSize)

RECURSIVE ReadVertexData(_, _)
ReadVertexData(p, value) ==
    IF p.thrown = NoError /\ p.readState = "VertexData"
          /\ VertexLoopGuard(p, value)
    THEN IF VerticesFull(p)
         THEN Enter(p, "IndexData")
         ELSE ReadVertexData(
                Advance([p EXCEPT
                    !.vertices[1][p.vertexWriteIndex + 1] =
                        getUint32(value, p.readIndex),
                    !.vertexWriteIndex = @ + 1], value, 4),
                value)
    ELSE p

\* lines 258-268: the read is as wide as the array element
getIndex(p, value) ==
    IF Get(p.indexSize) = 1 THEN getUint8(value, p.readIndex)
    ELSE IF Get(p.indexSize) = 2 THEN getUint16(value, p.readIndex)
    ELSE getUint32(value, p.readIndex)

IndicesFullEarly(q) ==
    IF q.indicesWriteIndex + 1 >= Get(q.indexCount)
    THEN Enter(q, "Done")
    ELSE q

IndicesFullGoesBack(q) ==
    IF q.indicesWriteIndex >= Get(q.indexCount)
    THEN Enter(q, "VertexData")
    ELSE q

\* lines 273-279
IndicesFull(q) ==
    IF q.indicesWriteIndex >= Get(q.indexCount)
    THEN Enter(q, "Done")
    ELSE q

IndexStepOneByte(p) == 1

IndexStepElemSize(p) == ElemSize(Get(p.indexSize))

\* line 271: readIndex += indexSize
IndexStep(p) == Get(p.indexSize)

\* lines 252-280
RECURSIVE ReadIndexData(_, _)
ReadIndexData(p, value) ==
    IF p.thrown = NoError /\ p.readState = "IndexData"
          /\ Len(value) - p.readIndex >= Get(p.indexSize)
          /\ p.indicesWriteIndex < Get(p.indexCount)
    THEN IF ~InBounds(value, p.readIndex, ElemSize(Get(p.indexSize)))
         THEN Throw(p)
         ELSE LET q == Advance([p EXCEPT
                          !.indices[1][p.indicesWriteIndex + 1] =
                              getIndex(p, value),
                          !.indicesWriteIndex = @ + 1],
                          value, IndexStep(p))
              IN  ReadIndexData(IndicesFull(q), value)
    ELSE p

SaveTrailingDropsByte(p, value) ==
    IF p.thrown = NoError /\ p.readIndex < Len(value)
    THEN [p EXCEPT !.trailingChunkData =
                      Bytes(value, p.readIndex + 1, Len(value))]
    ELSE p

\* lines 282-284
SaveTrailing(p, value) ==
    IF p.thrown = NoError /\ p.readIndex < Len(value)
    THEN [p EXCEPT !.trailingChunkData = Bytes(value, p.readIndex, Len(value))]
    ELSE p

\* lines 159-284: one call of appendChunks with done = false, value = chunk
Pass(d, chunk) ==
    LET value == MergeTrailing(d, chunk)
        p0 == BeginPass(ClearTrailing(d))
        p1 == ReadIndexSize(p0, value)
        p2 == ReadVertexComponents(p1, value)
        p3 == ReadScaleFactor(p2, value)
        p4 == ReadModelOffset(p3, value)
        p5 == ReadVertexCount(p4, value)
        p6 == ReadIndexCount(p5, value)
        p7 == ReadVertexData(p6, value)
        p8 == ReadIndexData(p7, value)
    IN  SaveTrailing(p8, value)

-----------------------------------------------------------------------------
(* The meshes and streams the model is run on *)

SeqsUpTo(S, n) == UNION {[1..k -> S] : k \in 0..n}

\* declared index widths: the three of the format, and an unrecognised one
IndexSizes == {1, 2, 4, 7}

\* vertex words; 66051 = 0x00010203 has a different value in each low byte
Words == {1, 66051}

\* index values that fit the width, the largest of widths 1 and 2 among them
IndexVals(w) ==
    IF w = 1 THEN {1, 255} ELSE IF w = 2 THEN {1, 65535} ELSE {1, 66051}

\* bytes the source delivers after the declared payload, where it does
TrailingData == <<9, 9, 9, 9, 9>>

Mesh(w, m, v, i, z, t) ==
    [indexSize |-> w, mask |-> m, V |-> v, I |-> i, zeroOffset |-> z,
     trailing |-> t]

\* the scenario of section 8 of the specification
Scenario == Mesh(1, 1, <<1, 2, 3, 4, 5, 6>>, <<0, 1, 0>>, TRUE, <<>>)

\* streams that end with the declared payload; mask 3 = UV + normal
ExactMeshes ==
    UNION {{Mesh(w, 3, v, i, FALSE, <<>>) :
               v \in SeqsUpTo(Words, MaxVertexWords),
               i \in SeqsUpTo(IndexVals(w), MaxIndices)} : w \in IndexSizes}

\* streams that go on after the declared payload; mask 4 = colour only
LongMeshes ==
    {Mesh(w, 4, v, i, FALSE, TrailingData) :
        w \in IndexSizes, v \in SeqsUpTo({1}, MaxVertexWords),
        i \in SeqsUpTo({1}, MaxIndices)}

Meshes == ExactMeshes \cup LongMeshes \cup {Scenario}

\* fetch's Response: ok, and whether body is non-null
Responses == [ok : BOOLEAN, body : BOOLEAN]

-----------------------------------------------------------------------------
(* Scene: the list of objects drawn each frame.                            *)

\* Scene.ts 27, 126-133: the constructor makes two models and adds base;
\* call is the last call of add or remove, none yet
SceneInit == [objects |-> <<"base">>, call |-> Undefined]

-----------------------------------------------------------------------------
(* new Model(gl, url, ...): the constructor has called loadBOBJ, which has *)
(* issued fetch(url) and returned its promise.                             *)

Init ==
    /\ hdr \in Meshes
    /\ stream = Encode(hdr) \o hdr.trailing
    /\ pos = 0
    /\ dec = InitDec
    /\ pc = "fetch"
    /\ requested = FALSE
    /\ response = Undefined
    /\ chunks = 0
    /\ err = NoError
    /\ promise = "pending"
    /\ result = Undefined
    /\ handed = Undefined
    /\ modelData = Null
    /\ unhandled = FALSE
    /\ outstanding = 0
    /\ sessions = <<>>
    /\ gl = Undefined
    /\ scene = SceneInit

\* fetch(url) rejects (network failure): the chain skips to .catch
FetchRejects ==
    /\ pc = "fetch"
    /\ pc' = "chain_rejected"
    /\ err' = "TypeError"
    /\ UNCHANGED <<hdr, stream, pos, dec, requested, response, chunks, promise,
                   result, handed, modelData, unhandled, outstanding, sessions,
                   gl, scene>>

ResponseUsableOkOnly(r) == r.ok

\* line 142
ResponseUsable(r) == r.ok /\ r.body

\* lines 141-149: fetch resolves with r and readChunks(r) runs
readChunks(r) ==
    /\ pc = "fetch"
    /\ response' = Some(r)
    /\ \/ /\ ~ResponseUsable(r)
          /\ pc' = "chain_rejected"
          /\ err' = "Error"
          /\ requested' = requested
          /\ outstanding' = outstanding
       \/ /\ ResponseUsable(r)
          /\ pc' = "read"
          /\ requested' = TRUE
          /\ outstanding' = outstanding + 1
          /\ err' = err
    /\ UNCHANGED <<hdr, stream, pos, dec, chunks, promise, result, handed,
                   modelData, unhandled, sessions, gl, scene>>

ReadsIssuedPerCarry(p) ==
    IF p.thrown # NoError THEN 0
    ELSE IF p.trailingChunkData # Null THEN 2 ELSE 1

\* lines 151-153, 286: a pass ends with `return readChunk()`, one call of
\* reader.read(); a pass that threw did not get there
ReadsIssued(p) == IF p.thrown = NoError THEN 1 ELSE 0

\* lines 155-287: reader.read() fulfils with {done: false, value: the next n
\* bytes of the stream}
appendChunks(n) ==
    /\ pc = "read"
    /\ outstanding > 0
    /\ pos + n <= Len(stream)
    /\ LET p == Pass(dec, SubSeq(stream, pos + 1, pos + n))
       IN  /\ dec' = EndPass(p)
           /\ outstanding' = outstanding - 1 + ReadsIssued(p)
           /\ pos' = pos + n
           /\ chunks' = IF chunks < MaxChunksCounted THEN chunks + 1 ELSE chunks
           /\ \/ /\ p.thrown # NoError
                 /\ pc' = "chain_rejected"
                 /\ err' = p.thrown
              \/ /\ p.thrown = NoError
                 /\ pc' = "read"
                 /\ err' = err
    /\ UNCHANGED <<hdr, stream, requested, response, promise, result, handed,
                   modelData, unhandled, sessions, gl, scene>>

\* lines 155-158: reader.read() fulfils with {done: true}
appendChunksDone ==
    /\ pc = "read"
    /\ outstanding > 0
    /\ outstanding' = outstanding - 1
    /\ pc' = "chain_resolved"
    /\ UNCHANGED <<hdr, stream, pos, dec, requested, response, chunks, err,
                   promise, result, handed, modelData, unhandled, sessions, gl,
                   scene>>

\* line 152: reader.read() rejects
ReadRejects ==
    /\ pc = "read"
    /\ outstanding > 0
    /\ outstanding' = outstanding - 1
    /\ pc' = "chain_rejected"
    /\ err' = "SourceError"
    /\ UNCHANGED <<hdr, stream, pos, dec, requested, response, chunks, promise,
                   result, handed, modelData, unhandled, sessions, gl, scene>>

\* lines 123-124
IndexType(indexSize) ==
    IF indexSize = Some(1) THEN "UNSIGNED_BYTE"
    ELSE IF indexSize = Some(2) THEN "UNSIGNED_SHORT"
    ELSE "UNSIGNED_INT"

\* lines 79, 103, 112, 116: the buffers given to gl.bufferData
Handed(d) == [vertices |-> d.vertices, indices |-> d.indices]

\* lines 118-131: the value the promise is resolved with (the two vertex
\* array objects left out)
Resolved(d) ==
    [vertexCount   |-> d.vertexCount,
     triangleCount |-> d.triangleCount,
     indexCount    |-> d.indexCount,
     indexType     |-> IndexType(d.indexSize),
     scale         |-> d.scale,
     offset        |-> d.offset,
     hasColor      |-> d.hasColor,
     hasUV         |-> d.hasUV,
     hasNormal     |-> d.hasNormal]

\* lines 134, 137: the value the promise is rejected with
Rejected(e) == [message |-> "Error loading file", err |-> e]

\* lines 67-132: the chain settled without an error
LoadThen ==
    /\ pc = "chain_resolved"
    /\ handed' = Some(Handed(dec))
    /\ result' = Some(Resolved(dec))
    /\ promise' = "resolved"
    /\ pc' = "settled"
    /\ UNCHANGED <<hdr, stream, pos, dec, requested, response, chunks, err,
                   modelData, unhandled, outstanding, sessions, gl, scene>>

LoadCatchSwallows ==
    /\ pc = "chain_rejected"
    /\ pc' = "settled"
    /\ UNCHANGED <<hdr, stream, pos, dec, requested, response, chunks, err,
                   promise, result, handed, modelData, unhandled, outstanding,
                   sessions, gl, scene>>

\* lines 133-135
LoadCatch ==
    /\ pc = "chain_rejected"
    /\ result' = Some(Rejected(err))
    /\ promise' = "rejected"
    /\ pc' = "settled"
    /\ UNCHANGED <<hdr, stream, pos, dec, requested, response, chunks, err,
                   handed, modelData, unhandled, outstanding, sessions, gl,
                   scene>>

\* lines 310-313
ModelThen ==
    /\ promise = "resolved"
    /\ modelData = Null
    /\ modelData' = result
    /\ UNCHANGED <<hdr, stream, pos, dec, pc, requested, response, chunks, err,
                   promise, result, handed, unhandled, outstanding, sessions,
                   gl, scene>>

ModelCatchKeepsError ==
    /\ promise = "rejected"
    /\ ~unhandled
    /\ unhandled' = TRUE
    /\ modelData' = result
    /\ UNCHANGED <<hdr, stream, pos, dec, pc, requested, response, chunks, err,
                   promise, result, handed, outstanding, sessions, gl, scene>>

\* lines 314-316: the handler throws; the promise .catch returned is rejected
\* and nothing is attached to it
ModelCatch ==
    /\ promise = "rejected"
    /\ ~unhandled
    /\ unhandled' = TRUE
    /\ UNCHANGED <<hdr, stream, pos, dec, pc, requested, response, chunks, err,
                   promise, result, handed, modelData, outstanding, sessions,
                   gl, scene>>

\* line 320: if (!this.modelData) return
ModelLoaded(m) == m # Null

\* lines 319-370: what matters of the GL state changes is the draw call of
\* line 369, made with the vertex array object picked by depthOnly
draw(depthOnly) ==
    /\ IF ModelLoaded(modelData)
       THEN gl' = Some([vao   |-> IF depthOnly THEN "depthVAO" ELSE "vao",
                        mode  |-> "TRIANGLES",
                        count |-> Get(modelData).indexCount,
                        type  |-> Get(modelData).indexType])
       ELSE gl' = gl
    /\ UNCHANGED <<hdr, stream, pos, dec, pc, requested, response, chunks,
                   err, promise, result, handed, modelData, unhandled,
                   outstanding, sessions, scene>>

Next ==
    \/ FetchRejects
    \/ \E r \in Responses : readChunks(r)
    \/ \E n \in 1..(Len(stream) - pos) : appendChunks(n)
    \/ appendChunksDone
    \/ ReadRejects
    \/ LoadThen
    \/ LoadCatch
    \/ ModelThen
    \/ ModelCatch
    \/ \E depthOnly \in BOOLEAN : draw(depthOnly)

Spec == Init /\ [][Next]_vars

\* Promise reactions are jobs of the microtask queue, which the event loop
\* always drains: a settled promise's handlers do run.
FairSpec ==
    /\ Spec
    /\ WF_vars(LoadThen)
    /\ WF_vars(LoadCatch)
    /\ WF_vars(ModelThen)
    /\ WF_vars(ModelCatch)

-----------------------------------------------------------------------------
(* What the claims speak of *)

\* a stream of the format: a declared width of 1, 2 or 4, nothing after the
\* declared payload
WellFormed == hdr.indexSize \in {1, 2, 4} /\ hdr.trailing = <<>>

\* every byte of the stream was delivered and the source then signalled
\* end-of-stream: the chain settles without error only through line 157
DeliveredToEnd == pos = Len(stream) /\ pc = "settled" /\ err = NoError

\* the load ended for a reason of the decoder's own, not of the transport
DecodeFailed == pc = "settled" /\ err = "RangeError"

\* what a load of the whole stream as one chunk ends in
OneChunk ==
    LET p == Pass(InitDec, stream)
    IN  IF p.thrown # NoError
        THEN <<"rejected", Undefined, Some(Rejected(p.thrown))>>
        ELSE <<"resolved", Some(Handed(EndPass(p))),
               Some(Resolved(EndPass(p)))>>

\* C1 (as claimed): for a well-formed stream, every partition into chunks
\* followed by end-of-stream ends in the outcome of the one-chunk delivery:
\* the same settlement, vertex words, indices and header metadata.
C1_ChunkInvariance ==
    (WellFormed /\ (DeliveredToEnd \/ DecodeFailed))
        => <<promise, handed, result>> = OneChunk

\* C2 (as claimed): a well-formed stream delivered as a single chunk and
\* followed by end-of-stream yields a vertex buffer equal to V and an index
\* buffer equal to I.
C2_RoundTrip ==
    (WellFormed /\ DeliveredToEnd /\ chunks = 1)
        => /\ promise = "resolved"
           /\ handed = Some([vertices |-> Some(hdr.V), indices |-> Some(hdr.I)])

\* C3 (as claimed): loadBOBJ resolves, and hands buffers to the consumer,
\* only if the read state is Done; end-of-stream in any other state fails.
C3_NoPartialResult ==
    (promise = "resolved" \/ handed # Undefined) => dec.readState = "Done"

\* C4 (as claimed): when the 30-byte stream of an empty mesh has been
\* delivered, under whatever chunking, and end-of-stream was signalled, the
\* load has succeeded: the read state is Done, both buffers are empty and
\* 30 bytes are consumed.
EmptyMesh == WellFormed /\ hdr.V = <<>> /\ hdr.I = <<>>

C4_EmptyMesh ==
    (EmptyMesh /\ DeliveredToEnd) =>
        /\ promise = "resolved"
        /\ dec.readState = "Done"
        /\ handed = Some([vertices |-> Some(<<>>), indices |-> Some(<<>>)])
        /\ Len(dec.consumed) = 30

\* C5 (as claimed): with index width 1 and at least one index, once the
\* stream has been delivered to its end, under whatever chunking, the decoded
\* indices are the index bytes of the stream; the scenario stream decodes to
\* <<0, 1, 0>>.
C5_NarrowestWidth ==
    (WellFormed /\ hdr.indexSize = 1 /\ Len(hdr.I) >= 1 /\ DeliveredToEnd)
        => /\ promise = "resolved"
           /\ Get(handed).indices = Some(hdr.I)

\* C6 (as claimed): a first byte other than 1, 2 or 4 fails the load: no
\* index buffer is allocated, no payload is decoded, nothing is resolved.
C6_MalformedHeader ==
    hdr.indexSize \notin {1, 2, 4} =>
        /\ dec.indices = Undefined
        /\ dec.vertexWriteIndex = 0
        /\ dec.indicesWriteIndex = 0
        /\ promise # "resolved"
        /\ (dec.indexSize # Undefined /\ pc = "settled") => promise = "rejected"

\* C7 (as claimed): once the read state is Done no read request is
\* outstanding: the pass that reached Done issued none.
C7_StopAtDone == dec.readState = "Done" => pc # "read"

\* C8: a read request that fails, at any point of the stream, leads to the
\* rejection of the loadBOBJ promise, which is never resolved.
SourceFailed == err = "SourceError"

C8_SourceFailurePropagates ==
    /\ [](SourceFailed => promise # "resolved")
    /\ SourceFailed ~> (promise = "rejected")

C8_Witness ==
    /\ SourceFailed /\ promise = "rejected"
    /\ pos > 0 /\ pos < Len(stream)

\* C9: a response that is not ok or has no body rejects the load with no
\* chunk requested and the read state untouched, and the rejection names an
\* error other than the decoder's (RangeError).
TransportFailed ==
    response # Undefined /\ ~(Get(response).ok /\ Get(response).body)

C9_TransportFailure ==
    TransportFailed =>
        /\ ~requested
        /\ pc \in {"chain_rejected", "settled"}
        /\ dec = InitDec
        /\ promise # "resolved"
        /\ pc = "settled" =>
              /\ promise = "rejected"
              /\ Get(result).err # "RangeError"

C9_Witness ==
    /\ TransportFailed /\ promise = "rejected"
    /\ Get(response).ok /\ ~Get(response).body

\* C10 (as claimed): no failure of a load is thrown inside a promise callback
\* where nothing receives it.
C10_FailuresReachCaller == ~unhandled

\* the offset in the stream at which the field of a header state begins
FieldOffset(s) ==
    IF s = "IndexSize" THEN 0
    ELSE IF s = "VertexComponents" THEN 1
    ELSE IF s = "ScaleFactor" THEN 2
    ELSE IF s = "ModelOffset" THEN 10
    ELSE IF s = "VertexCount" THEN 22
    ELSE IF s = "IndexCount" THEN 26
    ELSE 30

HeaderStates ==
    {"IndexSize", "VertexComponents", "ScaleFactor", "ModelOffset",
     "VertexCount", "IndexCount"}

\* the width of the field the decoder is waiting for: a header field, a
\* vertex word while words are missing, an index after that
PendingWidth(d) ==
    IF d.readState \in {"IndexSize", "VertexComponents"} THEN 1
    ELSE IF d.readState = "ScaleFactor" THEN 8
    ELSE IF d.readState = "ModelOffset" THEN 12
    ELSE IF d.readState \in {"VertexCount", "IndexCount"} THEN 4
    ELSE IF d.readState = "VertexData"
              /\ d.vertexWriteIndex < Get(d.vertexBufferSize) THEN 4
    ELSE Get(d.indexSize)

\* C11 (as claimed): after every processed chunk the carry buffer holds fewer
\* bytes than the width of the next pending field (nothing is asked of the
\* carry here once the state is Done, where no field is pending).
C11_CarryBound ==
    (err = NoError /\ dec.readState # "Done")
        => Len(dec.trailingChunkData) < PendingWidth(dec)

\* C12: in every state, for every stream and chunking, vertexWriteIndex is
\* at most vertexBufferSize and indicesWriteIndex at most indexCount (both
\* are 0 while the count is not read yet), so every write lands inside the
\* preallocated buffer.
C12_WriteIndicesInBounds ==
    /\ IF dec.vertexBufferSize = Undefined
       THEN dec.vertexWriteIndex = 0
       ELSE /\ dec.vertexWriteIndex <= Get(dec.vertexBufferSize)
            /\ Len(Get(dec.vertices)) = Get(dec.vertexBufferSize)
    /\ IF dec.indexCount = Undefined
       THEN dec.indicesWriteIndex = 0
       ELSE /\ dec.indicesWriteIndex <= Get(dec.indexCount)
            /\ Len(Get(dec.indices)) = Get(dec.indexCount)

\* both buffers written to their last element
C12_Witness ==
    /\ dec.vertexBufferSize # Undefined /\ dec.indexCount # Undefined
    /\ Get(dec.vertexBufferSize) > 0 /\ Get(dec.indexCount) > 1
    /\ dec.vertexWriteIndex = Get(dec.vertexBufferSize)
    /\ dec.indicesWriteIndex = Get(dec.indexCount)

\* the number of bytes the header declares: 30 for the header, 4 for each
\* vertex word, the index width for each index
DeclaredBytes(d) ==
    30 + 4 * Get(d.vertexBufferSize) + Get(d.indexSize) * Get(d.indexCount)

\* C13: whenever the read state is Done, under every chunking, the bytes the
\* decoder has consumed (the delivered bytes less the carry) number exactly
\* 30 + 4 * vertexWordCount + indexWidth * indexCount.
C13_ExactConsumption ==
    dec.readState = "Done" =>
        /\ Len(dec.consumed) = DeclaredBytes(dec)
        /\ pos - Len(dec.trailingChunkData) = DeclaredBytes(dec)

\* Done reached over several chunks, with data delivered past the payload
C13_Witness ==
    /\ dec.readState = "Done" /\ chunks > 1
    /\ Get(dec.vertexBufferSize) > 0
    /\ pos > DeclaredBytes(dec)

\* position of a state in the enum
Ord(s) == CHOOSE i \in 1..Len(ModelReadState) : ModelReadState[i] = s

AssignedOnce ==
    {"indexSize", "hasColor", "hasUV", "hasNormal", "vertexBufferSize",
     "vertexCount", "indexCount", "triangleCount", "indicesElemSize"}

\* a header field that has been assigned keeps its value
HeaderFrozen ==
    /\ \A f \in AssignedOnce : dec[f] # Undefined => dec'[f] = dec[f]
    /\ Ord(dec.readState) > Ord("ScaleFactor") => dec'.scale = dec.scale
    /\ Ord(dec.readState) > Ord("ModelOffset") => dec'.offset = dec.offset

\* C14: the values given to readState are, in order and without gap or
\* repetition, an initial part of the enum IndexSize .. Done; no step moves
\* the state back, and no header field is assigned a second time.
C14_MonotonicReadState ==
    /\ [](/\ dec.visited = SubSeq(ModelReadState, 1, Len(dec.visited))
          /\ dec.readState = dec.visited[Len(dec.visited)])
    /\ [][/\ Ord(dec'.readState) >= Ord(dec.readState)
          /\ HeaderFrozen]_vars

\* all nine states visited, over several chunks
C14_Witness ==
    /\ dec.visited = ModelReadState
    /\ chunks > 1

\* C15 (as claimed): a header field is consumed whole or not at all, so in a
\* header state the consumed bytes are exactly the fields before that state
\* and the rest is carried over; and no read is made at or beyond the end of
\* the bytes at hand (such a read raises RangeError).
C15_HeaderAtomicity ==
    /\ err # "RangeError"
    /\ dec.readState \in HeaderStates =>
          /\ Len(dec.consumed) = FieldOffset(dec.readState)
          /\ pos - Len(dec.trailingChunkData) = FieldOffset(dec.readState)

\* C16 (as claimed): the pass in which vertexWriteIndex reaches the declared
\* vertex word count also leaves VertexData, so after a chunk pass the state
\* is never VertexData with vertexWriteIndex equal to the declared count.
C16_ImmediateTransition ==
    dec.readState = "VertexData" =>
        dec.vertexWriteIndex < Get(dec.vertexBufferSize)

\* C17 (as claimed): a well-formed stream delivered completely, under any
\* chunking, has reached Done once the pass over the chunk holding its last
\* byte has finished.
C17_Completion ==
    (WellFormed /\ pos = Len(stream) /\ pc = "read" /\ err = NoError)
        => dec.readState = "Done"

\* C18 (as claimed): with an index width byte other than 1, 2 or 4 the
\* decoder works as for width 4: each index takes 4 bytes, so the bytes
\* consumed at Done are 30 + 4 * vertexWordCount + 4 * indexCount.
C18_FallbackWidth ==
    (/\ dec.readState = "Done"
     /\ Get(dec.indexSize) \notin {1, 2, 4})
        => /\ Len(dec.consumed)
                 = 30 + 4 * Get(dec.vertexBufferSize) + 4 * Get(dec.indexCount)
           /\ pos - Len(dec.trailingChunkData)
                 = 30 + 4 * Get(dec.vertexBufferSize) + 4 * Get(dec.indexCount)

\* C19: within one decode session at most one reader.read() is outstanding
\* at any time; one is outstanding exactly while the chain waits for a chunk,
\* so a read is issued only by readChunks and by the end of a pass, and a
\* pass starts only when the single outstanding read is fulfilled.
C19_SequentialPull ==
    /\ outstanding \in {0, 1}
    /\ outstanding = 1 <=> pc = "read"

\* a second pass has ended with bytes carried over and the next read issued
C19_Witness ==
    /\ pc = "read" /\ outstanding = 1 /\ chunks > 1
    /\ dec.trailingChunkData # Null

-----------------------------------------------------------------------------
(* Two loadBOBJ calls at once, as Scene's constructor makes for its two    *)
(* models. Each call declares its own readState, trailingChunkData, write  *)
(* indices and buffers (Model.ts 39-56) and gets its own reader (line 147),*)
(* so the callbacks of a call close over that call's variables only.       *)

Sessions == {1, 2}

\* the sizes of the chunks the two readers deliver
ChunkSizes == {1, 3, 8, 30}

\* the two meshes fetched: twice the same, or two different ones
SessionMeshes ==
    LET a == Mesh(2, 4, <<66051>>, <<1, 65535>>, FALSE, TrailingData)
        b == Mesh(1, 3, <<1>>, <<255>>, FALSE, <<>>)
    IN  {<<a, a>>, <<a, b>>}

\* alone, aloneErr: the closure variables and the error of the same call fed
\* the same chunks with no other call around
SessionInit(h) ==
    [stream |-> Encode(h) \o h.trailing,
     pos    |-> 0,
     dec    |-> InitDec,
     pc     |-> "read",
     err    |-> NoError,
     result |-> Undefined,
     alone  |-> InitDec,
     aloneErr |-> NoError]

\* the variables of the single load, which stand still here
single ==
    <<hdr, stream, pos, dec, pc, requested, response, chunks, err, promise,
      result, handed, modelData, unhandled, outstanding, gl, scene>>

TwoInit ==
    /\ sessions \in {[i \in Sessions |-> SessionInit(m[i])] :
                        m \in SessionMeshes}
    /\ hdr = Scenario
    /\ stream = Encode(hdr) \o hdr.trailing
    /\ pos = 0
    /\ dec = InitDec
    /\ pc = "fetch"
    /\ requested = FALSE
    /\ response = Undefined
    /\ chunks = 0
    /\ err = NoError
    /\ promise = "pending"
    /\ result = Undefined
    /\ handed = Undefined
    /\ modelData = Null
    /\ unhandled = FALSE
    /\ outstanding = 0
    /\ gl = Undefined
    /\ scene = SceneInit

ClosureSharedWriteIndex(ss, i) ==
    [ss[i].dec EXCEPT !.indicesWriteIndex = ss[3 - i].dec.indicesWriteIndex]

\* lines 39-56: the variables the callbacks of call i read and write are the
\* ones declared by that call
Closure(ss, i) == ss[i].dec

\* lines 155-287 in call i: its reader delivers the next n bytes
SessionChunk(i, n) ==
    /\ sessions # <<>>
    /\ sessions[i].pc = "read"
    /\ sessions[i].pos + n <= Len(sessions[i].stream)
    /\ LET s     == sessions[i]
           chunk == SubSeq(s.stream, s.pos + 1, s.pos + n)
           p     == Pass(Closure(sessions, i), chunk)
       IN  sessions' = [sessions EXCEPT ![i] =
               [s EXCEPT !.pos = s.pos + n,
                         !.dec = EndPass(p),
                         !.pc = IF p.thrown = NoError
                                THEN "read" ELSE "chain_rejected",
                         !.err = p.thrown,
                         !.alone = EndPass(Pass(s.alone, chunk)),
                         !.aloneErr = Pass(s.alone, chunk).thrown]]
    /\ UNCHANGED single

\* lines 155-158 in call i: its reader signals the end of the stream
SessionDone(i) ==
    /\ sessions # <<>>
    /\ sessions[i].pc = "read"
    /\ sessions' = [sessions EXCEPT ![i].pc = "chain_resolved"]
    /\ UNCHANGED single

\* lines 67-132 in call i
SessionThen(i) ==
    /\ sessions # <<>>
    /\ sessions[i].pc = "chain_resolved"
    /\ sessions' = [sessions EXCEPT
           ![i].pc = "settled",
           ![i].result = Some(Resolved(Closure(sessions, i)))]
    /\ UNCHANGED single

\* lines 133-135 in call i
SessionCatch(i) ==
    /\ sessions # <<>>
    /\ sessions[i].pc = "chain_rejected"
    /\ sessions' = [sessions EXCEPT
           ![i].pc = "settled",
           ![i].result = Some(Rejected(sessions[i].err))]
    /\ UNCHANGED single

TwoNext ==
    \E i \in Sessions :
        \/ \E n \in ChunkSizes : SessionChunk(i, n)
        \/ SessionDone(i)
        \/ SessionThen(i)
        \/ SessionCatch(i)

TwoSpec == TwoInit /\ [][TwoNext]_vars

-----------------------------------------------------------------------------

\* C21: after every chunk pass the bytes consumed so far followed by the
\* carry are exactly the chunks delivered so far, in delivery order: nothing
\* is dropped, duplicated or reordered; and when everything delivered has
\* been consumed the carry is null.
C21_ByteConservation ==
    /\ dec.consumed \o dec.trailingChunkData = SubSeq(stream, 1, pos)
    /\ Len(dec.consumed) = pos => dec.trailingChunkData = Null

\* several chunks in, past the header, with bytes carried over
C21_Witness ==
    /\ chunks > 1
    /\ Len(dec.consumed) > 30
    /\ dec.trailingChunkData # Null
    /\ pos < Len(stream)

\* a buffer that exists keeps its length and what was written to it
Kept(buffer, written) ==
    dec[buffer] # Undefined =>
        /\ dec'[buffer] # Undefined
        /\ Len(Get(dec'[buffer])) = Len(Get(dec[buffer]))
        /\ SubSeq(Get(dec'[buffer]), 1, dec[written])
              = SubSeq(Get(dec[buffer]), 1, dec[written])

\* C22: whenever the read state is VertexData or later, the vertex buffer has
\* exactly the declared vertex word count of elements and the index buffer
\* exactly the declared index count; both exist before a byte after the
\* 30-byte header is consumed; and a buffer, once allocated, is never
\* replaced or resized.
C22_Preallocation ==
    /\ [](/\ Ord(dec.readState) >= Ord("VertexData") =>
                /\ dec.vertices # Undefined /\ dec.indices # Undefined
                /\ Len(Get(dec.vertices)) = Len(hdr.V)
                /\ Len(Get(dec.indices)) = Len(hdr.I)
          /\ (dec.vertices = Undefined \/ dec.indices = Undefined) =>
                Len(dec.consumed) < 30)
    /\ [][Kept("vertices", "vertexWriteIndex")
            /\ Kept("indices", "indicesWriteIndex")]_vars

\* both buffers allocated and partly written, over several chunks
C22_Witness ==
    /\ dec.readState = "IndexData" /\ chunks > 1
    /\ dec.vertexWriteIndex > 0
    /\ dec.indicesWriteIndex > 0
    /\ dec.indicesWriteIndex < Get(dec.indexCount)

\* C23: indexSize is the first byte of the stream from the moment it is set
\* and no step changes it afterwards; every index read takes exactly
\* indexSize bytes, however the index data is cut into chunks: from
\* VertexData on, the bytes consumed are the header, 4 for each vertex word
\* written and indexSize for each index written.
C23_FixedIndexWidth ==
    /\ [](/\ dec.indexSize # Undefined => Get(dec.indexSize) = stream[1]
          /\ Ord(dec.readState) >= Ord("VertexData") =>
                Len(dec.consumed) = 30 + 4 * dec.vertexWriteIndex
                                  + Get(dec.indexSize) * dec.indicesWriteIndex)
    /\ [][dec.indexSize # Undefined => dec'.indexSize = dec.indexSize]_vars

\* a 4-byte index cut in two by a chunk boundary, after one index was read
C23_Witness ==
    /\ dec.readState = "IndexData" /\ chunks > 1
    /\ dec.indexSize = Some(4)
    /\ dec.indicesWriteIndex = 1
    /\ Len(dec.trailingChunkData) = 2

\* C24: whenever the read state is Done, vertexWriteIndex equals the declared
\* vertex word count and indicesWriteIndex the declared index count; and a
\* chunk pass that starts in Done changes neither buffer, neither write
\* index, nor the state.
C24_DoneMeansFull ==
    /\ [](dec.readState = "Done" =>
            /\ dec.vertexWriteIndex = Len(hdr.V)
            /\ dec.indicesWriteIndex = Len(hdr.I)
            /\ dec.vertexWriteIndex = Get(dec.vertexBufferSize)
            /\ dec.indicesWriteIndex = Get(dec.indexCount))
    /\ [][dec.readState = "Done" =>
            /\ dec'.readState = "Done"
            /\ dec'.vertices = dec.vertices
            /\ dec'.indices = dec.indices
            /\ dec'.vertexWriteIndex = dec.vertexWriteIndex
            /\ dec'.indicesWriteIndex = dec.indicesWriteIndex]_vars

\* Done with two indices, and all the bytes that follow the payload
\* delivered and carried
C24_Witness ==
    /\ dec.readState = "Done" /\ chunks > 1
    /\ dec.indicesWriteIndex = 2
    /\ dec.trailingChunkData = TrailingData

\* C26: however the calls of draw fall between the steps of the load, draw
\* makes no drawElements call while modelData is null; modelData is set only
\* by a resolved load, to what it resolved with; after a rejected load
\* modelData is null and nothing has been drawn.
C26_NoDrawBeforeLoad ==
    /\ [](/\ modelData = Null => gl = Undefined
          /\ modelData # Null => promise = "resolved" /\ modelData = result
          /\ promise = "rejected" => modelData = Null /\ gl = Undefined)
    /\ [][gl' # gl => modelData # Null /\ modelData' = modelData]_vars

\* the model drawn after its load resolved
C26_Witness ==
    /\ gl # Undefined
    /\ Get(gl).vao = "vao"
    /\ Get(gl).count = Some(2)
    /\ dec.readState = "Done"

-----------------------------------------------------------------------------
(* Scene.add and Scene.remove, called in any order on a scene whose models *)
(* are not looked at: the variables of the load stand still.               *)

MaxObjects == 4

\* the objects a caller may hand to add and remove
SceneObjects == {"base", "monke", "sphere"}

\* Array.prototype.indexOf: the 0-based place of the first x, -1 if none
indexOf(xs, x) ==
    IF \E i \in 1..Len(xs) : xs[i] = x
    THEN (CHOOSE i \in 1..Len(xs) :
             xs[i] = x /\ \A j \in 1..(i - 1) : xs[j] # x) - 1
    ELSE -1

\* Array.prototype.splice(start, deleteCount): a negative start counts from
\* the end of the array
splice(xs, start, deleteCount) ==
    LET len    == Len(xs)
        from   == IF start < 0
                  THEN (IF len + start > 0 THEN len + start ELSE 0)
                  ELSE (IF start < len THEN start ELSE len)
        wanted == IF deleteCount > 0 THEN deleteCount ELSE 0
        count  == IF wanted < len - from THEN wanted ELSE len - from
    IN  SubSeq(xs, 1, from) \o SubSeq(xs, from + count + 1, len)

\* Scene.ts 158-160
add(obj) ==
    /\ Len(scene.objects) < MaxObjects
    /\ scene' = [objects |-> Append(scene.objects, obj),
                 call    |-> Some(<<"add", obj>>)]
    /\ UNCHANGED <<hdr, stream, pos, dec, pc, requested, response, chunks,
                   err, promise, result, handed, modelData, unhandled,
                   outstanding, sessions, gl>>

\* Scene.ts 162-164
remove(obj) ==
    /\ scene' = [objects |-> splice(scene.objects,
                                    indexOf(scene.objects, obj), 1),
                 call    |-> Some(<<"remove", obj>>)]
    /\ UNCHANGED <<hdr, stream, pos, dec, pc, requested, response, chunks,
                   err, promise, result, handed, modelData, unhandled,
                   outstanding, sessions, gl>>

SceneNext ==
    \E obj \in SceneObjects :
        \/ add(obj)
        \/ remove(obj)

\* the scene as its constructor leaves it; the one load is not looked at
SceneStart == Init /\ hdr = Scenario

SceneSpec == SceneStart /\ [][SceneNext]_vars

\* xs without its element at place i (1-based)
Without(xs, i) == SubSeq(xs, 1, i - 1) \o SubSeq(xs, i + 1, Len(xs))

\* C25 (as claimed): remove(obj) for an object in the scene removes one
\* occurrence of obj and leaves the others and their order as they were;
\* remove(obj) for an object not in the scene leaves the list unchanged.
C25_RemoveOnlyArgument ==
    [][\A obj \in SceneObjects :
          scene'.call = Some(<<"remove", obj>>) =>
              IF \E i \in 1..Len(scene.objects) : scene.objects[i] = obj
              THEN \E i \in 1..Len(scene.objects) :
                      /\ scene.objects[i] = obj
                      /\ scene'.objects = Without(scene.objects, i)
              ELSE scene'.objects = scene.objects]_vars

====
